---- MODULE Spec2Model ----
(***************************************************************************)
(* cargo-v5: the device connection and session layer of src/main.rs.       *)
(*                                                                         *)
(* The model follows the main task of the process through app(): command   *)
(* dispatch, open_connection, upload (configuration resolution, radio      *)
(* negotiation, upload_program), switch_radio_channel with its poll loop   *)
(* racing a 5 second timer, the terminal loop, and the Run command's       *)
(* interrupt branch.  The device and the serial library are the            *)
(* environment: every handshake may reply or fail, and a reply may be      *)
(* late.  Time is counted in milliseconds from the creation of the poll    *)
(* timer; latencies below one poll interval are taken as 0.                *)
(*                                                                         *)
(* Option<T> values are sets: None is {} and Some(x) is {x}.               *)
(***************************************************************************)
EXTENDS Integers, Sequences, FiniteSets, TLC

VARIABLES
    cmd,            \* the subcommand app() matched on, "none" before dispatch
    pc,             \* position of the main task
    result,         \* how the process ended, "none" while it runs
    logPointer,     \* main: what its error branch did about the log file location
    devController,  \* device: the serial port is a controller linked by radio
    devTethered,    \* device: the link to the brain is a cable
    devices,        \* open_connection: what find_devices returned, None for its error
    connectLog,     \* open_connection: the connect calls made, <<device, seconds>>
    openResult,     \* open_connection: its return value
    radioUp,        \* device: the radio link is established
    package,        \* upload: a package was found by cargo metadata
    argSlot,        \* upload: the --slot argument
    metaSlot,       \* upload: package.metadata.v5.slot
    promptSlot,     \* upload: what the interactive prompt returned
    slot,           \* upload: the resolved slot (line 424)
    artifact,       \* upload: the artifact to upload (line 397)
    uploadOpts,     \* upload: the remaining options and metadata fields read at the call
    uploadArgs,     \* upload: the arguments upload_program was invoked with
    uploadResult,   \* what upload_program returned, "none" before it returns
    channel,        \* switch_radio_channel: the target channel
    statusReply,    \* switch_radio_channel: flags of the first status query and its value
    inFlight,       \* operations that hold the connection and have not completed
    overlap,        \* an operation was started on the connection while another held it
    sent,           \* kinds of requests issued on the connection so far
    selectCount,    \* number of channel-select handshakes issued
    selectAcked,    \* switch_radio_channel: the channel-select handshake returned Ok
    selectAttempts, \* switch_radio_channel: attempts the handshake that just ended made
    settled,        \* switch_radio_channel: the settle delay was slept
    elapsed,        \* switch_radio_channel: ms since the poll timer was created
    polls,          \* switch_radio_channel: status polls completed
    spaced,         \* every poll so far answered at once, so polls are 250 ms apart
    pollErr,        \* some poll returned an error
    lastPoll,       \* what the poll before the pending sleep returned
    flipPoll,       \* number of polls answered before the one that reported the link
    successLogs,    \* switch_radio_channel: success messages logged
    swResult,       \* switch_radio_channel: its return value
    termStarted,    \* terminal() was called
    lastRead,       \* terminal: bytes of the last successful read_user
    shutdownLog,    \* Run: requests attempted by the interrupt branch, with outcomes
    newName,        \* new: the name argument, None for init
    dirBefore,      \* new: the target directory when new was called, None when absent
    dir,            \* new: the target directory now, a set of <<file, content>>
    unpacked        \* new: template entries unpacked so far

vars == <<cmd, pc, result, inFlight, overlap, logPointer, termStarted, devController,
          devTethered, devices, connectLog, openResult, radioUp, package, argSlot,
          metaSlot, promptSlot, slot, artifact, uploadOpts, uploadArgs, uploadResult,
          channel, statusReply, sent, selectCount, selectAcked, selectAttempts, settled,
          elapsed, polls, spaced, pollErr, lastPoll, flipPoll, successLogs, swResult,
          lastRead, shutdownLog, newName, dirBefore, dir, unpacked>>

devVars == <<devController, devTethered>>
openVars == <<devices, connectLog, openResult>>
upVars == <<package, argSlot, metaSlot, promptSlot, slot, artifact>>
callVars == <<uploadOpts, uploadArgs, uploadResult>>
swVars == <<channel, statusReply, selectAcked, selectAttempts, settled, elapsed, polls, spaced,
            pollErr, lastPoll, flipPoll, successLogs, swResult>>
reqVars == <<sent, selectCount>>
termVars == <<termStarted, lastRead, shutdownLog>>
mainVars == <<logPointer>>
connVars == <<inFlight, overlap>>
newVars == <<newName, dirBefore, dir, unpacked>>

----------------------------------------------------------------------------
(* Option<T> *)

None == {}
Some(x) == {x}
Unwrap(o) == CHOOSE x \in o : TRUE
OptOr(a, b) == IF a # None THEN a ELSE b
UnwrapOr(o, d) == IF o # None THEN Unwrap(o) ELSE d

----------------------------------------------------------------------------
(* Bounds of the environment *)

\* longest byte sequence one read_user returns
MaxRead == 2

\* most serial devices find_devices returns
MaxDevices == 2

----------------------------------------------------------------------------
(* Program constants *)

\* ProductFlags::CONNECTED_WIRELESS, 1 << 1
CONNECTED_WIRELESS == 2
\* a slip: bit 7 tested instead of bit 8
TETHERED_bit7 == 2 ^ 7
\* the tethered bit of the system flags, 1 << 8
TETHERED == 256
\* the settle delay and the timeout of one status handshake
SettleMs == 250
StatusTimeoutMs == 500
\* a slip: the poll deadline given the duration of a status timeout
PollTimeoutMs_asStatus == StatusTimeoutMs
\* the deadline of the poll loop
PollTimeoutMs == 5000
\* a slip: the loop sleeps a whole status timeout between two polls
PollIntervalMs_asTimeout == StatusTimeoutMs
\* sleep between two polls
PollIntervalMs == 250
\* retries of the channel-select handshake
\* a handshake that is attempted once
SelectRetries_once == 3 - 2

SelectRetries == 3

\* line 275: the bound of connect, in seconds
ConnectTimeoutSecs == 5
\* a slip: the shutdown handshakes given the retries of the channel-select
ShutdownRetries_asSelect == SelectRetries
\* retries of the two shutdown handshakes
ShutdownRetries == 1

----------------------------------------------------------------------------
(* Pure functions *)

RECURSIVE BitAnd(_, _)
BitAnd(a, b) ==
    IF a = 0 \/ b = 0 THEN 0
    ELSE (a % 2) * (b % 2) + 2 * BitAnd(a \div 2, b \div 2)

\* bitflags contains(): every bit of other is set in flags
contains(flags, other) == BitAnd(flags, other) = other

\* a slip: the two conditions joined by "or"
is_connection_wireless_or(version_flags, system_flags) ==
    BitAnd(system_flags, TETHERED) = 0 \/ contains(version_flags, CONNECTED_WIRELESS)

\* the value is_connection_wireless computes from the two replies
is_connection_wireless(version_flags, system_flags) ==
    LET controller == contains(version_flags, CONNECTED_WIRELESS)
        tethered == BitAnd(system_flags, TETHERED) # 0
    IN  ~tethered /\ controller

\* the validator of the interactive prompt: (1..=8).contains(slot)
PromptValid(s) == 1 <= s /\ s <= 8

\* a slip: no upper limit
SlotInRange_unbounded(s) == 1 <= s

\* the range test of upload: (1..8).contains(&slot)
SlotInRange(s) == 1 <= s /\ s < 8

\* a slip: the metadata consulted before the argument
\* a resolution that falls back to slot 1 when every source is empty
ResolveSlot_default(arg, meta, prompt) ==
    OptOr(OptOr(OptOr(arg, meta), prompt), Some(1))

ResolveSlot_metaFirst(arg, meta, prompt) == OptOr(OptOr(meta, arg), prompt)

\* slot.or(metadata.and_then(|m| m.slot)).or_else(prompt)
ResolveSlot(arg, meta, prompt) == OptOr(OptOr(arg, meta), prompt)

ResolveName(name, pkgName) == UnwrapOr(OptOr(name, pkgName), "cargo-v5")

ResolveDescription(description, pkgDescription) ==
    UnwrapOr(OptOr(description, pkgDescription), "Uploaded with cargo-v5.")

\* unwrap_or_default(): the default icon
ResolveIcon(icon, metaIcon) == UnwrapOr(OptOr(icon, metaIcon), "default")

ResolveCompress(uncompressed, metaCompress) ==
    IF uncompressed # None THEN ~Unwrap(uncompressed)
    ELSE UnwrapOr(metaCompress, TRUE)

\* Path::set_extension and the output path of objcopy
set_extension(path, ext) == [stem |-> path.stem, ext |-> ext]

\* std::str::from_utf8(..).is_ok()
IsCont(b) == 128 <= b /\ b <= 191

RECURSIVE from_utf8_ok(_)
from_utf8_ok(s) ==
    IF s = <<>> THEN TRUE
    ELSE LET b == Head(s)
             n == Len(s)
             second(lo, hi) == n >= 2 /\ lo <= s[2] /\ s[2] <= hi
             conts(k) == n >= k /\ \A i \in 3..k : IsCont(s[i])
             rest(k) == from_utf8_ok(SubSeq(s, k + 1, n))
         IN  IF b < 128 THEN rest(1)
             ELSE IF 194 <= b /\ b <= 223 THEN second(128, 191) /\ rest(2)
             ELSE IF b = 224 THEN second(160, 191) /\ conts(3) /\ rest(3)
             ELSE IF b = 237 THEN second(128, 159) /\ conts(3) /\ rest(3)
             ELSE IF 225 <= b /\ b <= 239 THEN second(128, 191) /\ conts(3) /\ rest(3)
             ELSE IF b = 240 THEN second(144, 191) /\ conts(4) /\ rest(4)
             ELSE IF b = 244 THEN second(128, 143) /\ conts(4) /\ rest(4)
             ELSE IF 241 <= b /\ b <= 243 THEN second(128, 191) /\ conts(4) /\ rest(4)
             ELSE FALSE

----------------------------------------------------------------------------
(* Inputs and environment *)

Commands == {"Upload", "Run", "Terminal", "New", "Init"}

\* the files of the template archive under its top directory, in archive order
TemplateFiles == <<"Cargo.toml", "src/main.rs">>

\* what the target directory of new can be: absent, or a directory with these files
ExistingFiles == {"Cargo.toml", "notes.txt"}
Directories == {None} \cup {Some({<<f, "user">> : f \in fs}) : fs \in SUBSET ExistingFiles}

\* Entry::unpack and fs::write: the file is created or overwritten
WriteFile(d, file, content) ==
    Some({e \in UnwrapOr(d, {}) : e[1] # file} \cup {<<file, content>>})

\* line 55: read_dir(&dir).is_ok_and(|e| e.count() > 0)
DirFull(d, listed) == d # None /\ listed /\ Cardinality(Unwrap(d)) > 0

ArgSlots == {None} \cup {Some(s) : s \in {0, 2, 8, 9}}
MetaSlots == {None} \cup {Some(s) : s \in {0, 5, 8, 255}}
\* the prompt only returns a value its validator accepted, or nothing
PromptSlots == {None} \cup {Some(s) : s \in {t \in {0, 1, 8, 9} : PromptValid(t)}}

Files == {None, Some([stem |-> "robot", ext |-> "bin"]),
          Some([stem |-> "robot", ext |-> "elf"])}
\* what the build callback receives, if it is called at all
Builds == {None, Some([stem |-> "target", ext |-> "elf"])}

OptStr(s) == {None, Some(s)}
OptBool == {None, Some(TRUE), Some(FALSE)}

\* the options and metadata fields upload reads when it calls upload_program
UploadOptions(pkg) ==
    [name : OptStr("cli-name"),
     description : OptStr("cli-description"),
     icon : OptStr("cli-icon"),
     uncompressed : OptBool,
     pkgName : IF pkg THEN {Some("pkg-name")} ELSE {None},
     pkgDescription : IF pkg THEN OptStr("pkg-description") ELSE {None},
     metaIcon : IF pkg THEN OptStr("meta-icon") ELSE {None},
     metaCompress : IF pkg THEN OptBool ELSE {None}]

Afters == {"None", "Run"}

\* replies of the device to the two status queries
\* while the radio changes channel (~radioUp) the link may or may not be reported
LinkBits ==
    IF ~devController THEN {0}
    ELSE IF radioUp THEN {CONNECTED_WIRELESS}
    ELSE {0, CONNECTED_WIRELESS}
ProductReplies == {n + w : n \in {0, 1}, w \in LinkBits}
SystemReplies ==
    {n + (IF devTethered THEN TETHERED ELSE 0) : n \in {0, 255, 512}}

\* packet_handshake(timeout, retries, request): the request is sent until a reply
\* arrives, at most `retries` times; <<number of attempts, outcome>>
HandshakeRuns(retries) ==
    {<<k, "Ok">> : k \in 1..retries} \cup {<<retries, e>> : e \in {"Nack", "Timeout"}}

\* a handshake replies at once or after part of its timeout; it fails at once or by timeout
ReplyLatencies == {0, PollIntervalMs}
ErrorLatencies == {0, StatusTimeoutMs}

\* the lists find_devices can return: distinct devices, in the order found
RECURSIVE ListsUpTo(_)
ListsUpTo(n) ==
    IF n = 0 THEN {<<>>}
    ELSE LET shorter == ListsUpTo(n - 1)
         IN  shorter \cup {Append(l, d) : l \in {m \in shorter : Len(m) = n - 1},
                                          d \in 1..MaxDevices}
DeviceLists ==
    {l \in ListsUpTo(MaxDevices) : \A i, j \in 1..Len(l) : l[i] = l[j] => i = j}

\* a slice's last element, where the code takes the first
first_last(list) == IF list = <<>> THEN None ELSE Some(list[Len(list)])

\* <[T]>::first
first(list) == IF list = <<>> THEN None ELSE Some(list[1])

Bytes == {65, 169, 195, 226, 255}
RECURSIVE SeqsUpTo(_)
SeqsUpTo(n) ==
    IF n = 0 THEN {<<>>}
    ELSE LET shorter == SeqsUpTo(n - 1)
         IN  shorter \cup {Append(s, b) : s \in {t \in shorter : Len(t) = n - 1}, b \in Bytes}
Reads == SeqsUpTo(MaxRead)

----------------------------------------------------------------------------
(* Initial state *)

Init ==
    /\ cmd = "none"
    /\ pc = "start"
    /\ result = "none"
    /\ devController \in BOOLEAN
    /\ devTethered \in BOOLEAN
    /\ devices = None
    /\ connectLog = <<>>
    /\ openResult = "none"
    /\ logPointer = "none"
    /\ inFlight = {}
    /\ overlap = FALSE
    /\ termStarted = FALSE
    /\ radioUp = TRUE
    /\ package = FALSE
    /\ argSlot = None
    /\ metaSlot = None
    /\ promptSlot = None
    /\ slot = None
    /\ artifact = None
    /\ uploadOpts = None
    /\ uploadArgs = None
    /\ uploadResult = "none"
    /\ channel = "none"
    /\ statusReply = None
    /\ sent = {}
    /\ selectCount = 0
    /\ selectAcked = FALSE
    /\ selectAttempts = 0
    /\ settled = FALSE
    /\ elapsed = 0
    /\ polls = 0
    /\ spaced = TRUE
    /\ pollErr = FALSE
    /\ lastPoll = "none"
    /\ flipPoll = None
    /\ successLogs = 0
    /\ swResult = "none"
    /\ lastRead = None
    /\ shutdownLog = <<>>
    /\ newName = None
    /\ dirBefore = None
    /\ dir = None
    /\ unpacked = 0

----------------------------------------------------------------------------
(* app: dispatch and open_connection *)

\* app() returns Err(err) to main (line 149)
Fail(err) == pc' = "main_err" /\ result' = err

\* the process ends without an error value reaching main: app() returned Ok, a panic
\* unwound the task, exit() was called, or a signal ended the process
End(how) == pc' = "done" /\ result' = how

\* tokio::select! drops the futures of the branches that did not complete
SelectDrops_keeps(flight) == flight

SelectDrops(flight) == {}

\* an operation takes `&mut connection` and completes within the step
UseConnection == overlap' = (overlap \/ inFlight # {}) /\ UNCHANGED inFlight

\* an operation takes `&mut connection` and is pending after the step
Begin(op, flight) == overlap' = (overlap \/ flight # {}) /\ inFlight' = flight \cup {op}

\* terminal() is entered (lines 187 and 218): the select of its loop polls read_user
CallTerminal ==
    /\ pc' = "term_select"
    /\ termStarted' = TRUE
    /\ Begin("read_user", inFlight)

\* entry into switch_radio_channel(connection, RadioChannel::Download)
CallSwitch == pc' = "sw_query" /\ channel' = "Download" /\ swResult' = "none"

Dispatch ==
    /\ pc = "start"
    /\ \E c \in Commands :
         /\ cmd' = c
         /\ pc' = IF c \in {"New", "Init"} THEN "new" ELSE "open"
    /\ UNCHANGED <<result, devVars, newVars, openVars, mainVars, connVars, radioUp, upVars,
                   callVars, swVars, reqVars, termVars>>

open_connection ==
    /\ pc = "open"
    /\ \E found \in {None} \cup {Some(l) : l \in DeviceLists}, connected \in BOOLEAN :
         /\ devices' = found
         /\ IF found = None
            THEN openResult' = "SerialError" /\ connectLog' = <<>>
            ELSE LET device == first(Unwrap(found))
                 IN  IF device = None
                     THEN openResult' = "NoDevice" /\ connectLog' = <<>>
                     ELSE /\ connectLog' = <<<<Unwrap(device), ConnectTimeoutSecs>>>>
                          /\ openResult' = IF connected THEN "Ok" ELSE "SerialError"
    /\ pc' = "open_ret"
    /\ UNCHANGED <<cmd, result, devVars, newVars, mainVars, connVars, radioUp, upVars,
                   callVars, swVars, reqVars, termVars>>

\* return to app: `?` of lines 179, 182 and 216; the locals of open_connection are gone
open_return ==
    /\ pc = "open_ret"
    /\ IF openResult # "Ok"
       THEN Fail(openResult) /\ UNCHANGED <<channel, swResult>>
       ELSE IF cmd = "Terminal"
       THEN CallSwitch /\ UNCHANGED result
       ELSE pc' = "up_resolve" /\ UNCHANGED <<result, channel, swResult>>
    /\ devices' = None
    /\ connectLog' = <<>>
    /\ openResult' = "none"
    /\ UNCHANGED <<cmd, devVars, newVars, mainVars, connVars, radioUp, upVars, callVars,
                   reqVars, termVars, statusReply, selectAcked, selectAttempts, settled,
                   elapsed, polls, spaced, pollErr, lastPoll, flipPoll, successLogs>>

\* lines 149-157: main's error branch. The location is printed for every file the
\* logger lists, and nothing is printed when the listing fails.
main_error ==
    /\ pc = "main_err"
    /\ \E listed \in BOOLEAN :
         logPointer' = IF listed THEN "printed" ELSE "unlistable"
    /\ pc' = "done"
    /\ UNCHANGED <<cmd, result, devVars, newVars, openVars, connVars, radioUp, upVars,
                   callVars, swVars, reqVars, termVars>>

----------------------------------------------------------------------------
(* upload: metadata, artifact and slot, up to the range test *)

upload_resolve ==
    /\ pc = "up_resolve"
    /\ \E pkg \in {"none", "malformed", "ok"}, ms \in MetaSlots, file \in Files,
          converted \in BOOLEAN, built \in Builds, as \in ArgSlots, ps \in PromptSlots :
         LET meta == IF pkg = "ok" THEN ms ELSE None
             art == IF file # None
                    THEN IF Unwrap(file).ext = "bin" THEN file
                         ELSE Some(set_extension(Unwrap(file), "bin"))
                    ELSE IF built # None THEN Some(set_extension(Unwrap(built), "bin"))
                    ELSE None
             objcopyFails == file # None /\ Unwrap(file).ext # "bin" /\ ~converted
             objcopyPanics == file = None /\ built # None /\ ~converted
             asked == OptOr(as, meta) = None
             prompt == IF asked THEN ps ELSE None
             resolved == ResolveSlot(as, meta, prompt)
         IN  /\ argSlot' = as
             /\ IF pkg = "malformed"
                THEN /\ Fail("BadFieldType")
                     /\ UNCHANGED <<package, metaSlot, promptSlot, slot, artifact, channel,
                                    swResult>>
                ELSE /\ package' = (pkg = "ok")
                     /\ metaSlot' = meta
                     /\ IF objcopyFails
                        THEN /\ Fail("MissingBinutils")
                             /\ UNCHANGED <<promptSlot, slot, artifact, channel, swResult>>
                        ELSE IF objcopyPanics
                        THEN /\ End("panic")
                             /\ UNCHANGED <<promptSlot, slot, artifact, channel, swResult>>
                        ELSE /\ artifact' = art
                             /\ promptSlot' = prompt
                             /\ slot' = resolved
                             /\ IF resolved = None
                                THEN Fail("NoSlot") /\ UNCHANGED <<channel, swResult>>
                                ELSE IF ~SlotInRange(Unwrap(resolved))
                                THEN Fail("SlotOutOfRange") /\ UNCHANGED <<channel, swResult>>
                                ELSE CallSwitch /\ UNCHANGED result
    /\ UNCHANGED <<cmd, devVars, newVars, openVars, mainVars, connVars, radioUp, callVars,
                   reqVars, termVars, statusReply, selectAcked, selectAttempts, settled,
                   elapsed, polls, spaced, pollErr, lastPoll, flipPoll, successLogs>>

----------------------------------------------------------------------------
(* switch_radio_channel *)

StatusKinds(versionOk) ==
    {"GetSystemVersion"} \cup (IF versionOk THEN {"GetSystemFlags"} ELSE {})

\* a status query whose error counts as an established link
StatusOrFalse_orTrue(ok, v, s) ==
    UnwrapOr(IF ok THEN Some(is_connection_wireless(v, s)) ELSE None, TRUE)

\* Result<bool, _>::unwrap_or(false) of a status query
StatusOrFalse(ok, v, s) ==
    UnwrapOr(IF ok THEN Some(is_connection_wireless(v, s)) ELSE None, FALSE)

\* line 310: the first status query decides whether anything is done
switch_query ==
    /\ pc = "sw_query"
    /\ \E versionOk \in BOOLEAN, flagsOk \in BOOLEAN,
          v \in ProductReplies, s \in SystemReplies :
         /\ sent' = sent \cup StatusKinds(versionOk)
         /\ IF ~versionOk \/ ~flagsOk
            THEN /\ statusReply' = None
                 /\ swResult' = "SerialError"
                 /\ pc' = "sw_ret"
            ELSE /\ statusReply' = Some([version |-> v, system_flags |-> s,
                                         wireless |-> is_connection_wireless(v, s)])
                 /\ IF is_connection_wireless(v, s)
                    THEN pc' = "sw_select" /\ UNCHANGED swResult
                    ELSE pc' = "sw_ret" /\ swResult' = "Ok"
    /\ UNCHANGED <<cmd, result, devVars, newVars, openVars, mainVars, radioUp, upVars,
                   callVars, termVars, selectCount, channel, selectAcked, selectAttempts,
                   settled, elapsed, polls, spaced, pollErr, lastPoll, flipPoll,
                   successLogs>>
    /\ UseConnection

\* lines 319-325: the channel-select handshake; the acknowledged device drops its link
switch_select ==
    /\ pc = "sw_select"
    /\ sent' = sent \cup {"SelectRadioChannel"}
    /\ selectCount' = selectCount + 1
    /\ statusReply' = None
    /\ \E run \in HandshakeRuns(SelectRetries) :
         /\ selectAttempts' = run[1]
         /\ IF run[2] = "Ok"
            THEN /\ selectAcked' = TRUE
                 /\ radioUp' = FALSE
                 /\ pc' = "sw_settle"
                 /\ UNCHANGED swResult
            ELSE /\ swResult' = "SerialError"
                 /\ pc' = "sw_ret"
                 /\ UNCHANGED <<selectAcked, radioUp>>
    /\ UNCHANGED <<cmd, result, devVars, newVars, openVars, mainVars, upVars, callVars,
                   termVars, channel, settled, elapsed, polls, spaced, pollErr, lastPoll,
                   flipPoll, successLogs>>
    /\ UseConnection

\* line 328, then the timer of line 333 is created
switch_settle ==
    /\ pc = "sw_settle"
    /\ settled' = TRUE
    /\ selectAttempts' = 0
    /\ elapsed' = 0
    /\ pc' = "sw_poll"
    /\ UNCHANGED <<cmd, result, devVars, newVars, openVars, mainVars, connVars, radioUp,
                   upVars, callVars, termVars, reqVars, channel, statusReply, selectAcked,
                   polls, spaced, pollErr, lastPoll, flipPoll, successLogs, swResult>>

\* line 334: the timer branch of the select
TimerFires ==
    /\ elapsed' = PollTimeoutMs
    /\ swResult' = "RadioChannelTimeout"
    /\ pc' = "sw_ret"

\* line 337: one status query of the poll loop, racing the timer.  A reply that arrives
\* with the deadline is taken by whichever branch the select polls first; a loop that
\* goes on at the deadline only finds the timer ready.
switch_poll ==
    /\ pc = "sw_poll"
    /\ \E versionOk \in BOOLEAN, flagsOk \in BOOLEAN, timerFirst \in BOOLEAN :
       \E lat \in (IF versionOk /\ flagsOk THEN ReplyLatencies ELSE ErrorLatencies),
          wireless \in {StatusOrFalse(versionOk /\ flagsOk, v, s) :
                            v \in ProductReplies, s \in SystemReplies} :
         LET ok == versionOk /\ flagsOk
             t == elapsed + lat
         IN  /\ sent' = sent \cup StatusKinds(versionOk)
             /\ spaced' = (spaced /\ lat = 0)
             /\ IF t > PollTimeoutMs \/ (t = PollTimeoutMs /\ (timerFirst \/ ~wireless))
                THEN /\ TimerFires
                     /\ UNCHANGED <<polls, pollErr, lastPoll, successLogs, radioUp,
                                    flipPoll>>
                ELSE /\ elapsed' = t
                     /\ polls' = polls + 1
                     /\ pollErr' = (pollErr \/ ~ok)
                     /\ lastPoll' = IF ~ok THEN "Err"
                                    ELSE IF wireless THEN "Ok(true)" ELSE "Ok(false)"
                     /\ IF wireless
                        THEN /\ radioUp' = TRUE
                             /\ flipPoll' = Some(polls)
                             /\ successLogs' = successLogs + 1
                             /\ swResult' = "Ok"
                             /\ pc' = "sw_ret"
                        ELSE /\ pc' = "sw_sleep"
                             /\ UNCHANGED <<successLogs, swResult, radioUp, flipPoll>>
    /\ UNCHANGED <<cmd, result, devVars, newVars, openVars, mainVars, upVars, callVars,
                   termVars, selectCount, channel, statusReply, selectAcked, selectAttempts,
                   settled>>
    /\ UseConnection

\* line 338: the sleep between two polls, racing the timer
switch_sleep ==
    /\ pc = "sw_sleep"
    /\ IF elapsed + PollIntervalMs >= PollTimeoutMs
       THEN TimerFires
       ELSE /\ elapsed' = elapsed + PollIntervalMs
            /\ pc' = "sw_poll"
            /\ UNCHANGED swResult
    /\ lastPoll' = "none"
    /\ UNCHANGED <<cmd, result, devVars, newVars, openVars, mainVars, connVars, radioUp,
                   upVars, callVars, termVars, reqVars, channel, statusReply, selectAcked,
                   selectAttempts, settled, polls, spaced, pollErr, flipPoll, successLogs>>

\* a slip: the result of the negotiation discarded, `_ = switch_radio_channel(..)`
is_ok_discarded(res) == TRUE

\* the `?` applied to the result of switch_radio_channel
is_ok(res) == res = "Ok"

\* return to the caller: `?` in upload (line 447) and in app (line 217)
switch_return ==
    /\ pc = "sw_ret"
    /\ IF is_ok(swResult)
       THEN /\ IF cmd = "Terminal"
               THEN CallTerminal
               ELSE pc' = "up_program" /\ UNCHANGED <<termStarted, connVars>>
            /\ UNCHANGED result
       ELSE Fail(swResult) /\ UNCHANGED <<termStarted, connVars>>
    /\ statusReply' = None
    /\ selectAcked' = FALSE
    /\ selectAttempts' = 0
    /\ settled' = FALSE
    /\ elapsed' = 0
    /\ polls' = 0
    /\ spaced' = TRUE
    /\ pollErr' = FALSE
    /\ lastPoll' = "none"
    /\ flipPoll' = None
    /\ successLogs' = 0
    /\ UNCHANGED <<cmd, devVars, newVars, openVars, mainVars, radioUp, upVars, callVars,
                   reqVars, lastRead, shutdownLog, channel, swResult>>

----------------------------------------------------------------------------
(* upload: the call of upload_program *)

\* lines 450-469: the arguments built for upload_program
UploadArguments(o, after) ==
    [artifact |-> Unwrap(artifact),
     after |-> after,
     slot |-> Unwrap(slot),
     name |-> ResolveName(o.name, o.pkgName),
     description |-> ResolveDescription(o.description, o.pkgDescription),
     icon |-> ResolveIcon(o.icon, o.metaIcon),
     program_type |-> "Rust",
     compress |-> ResolveCompress(o.uncompressed, o.metaCompress)]

upload_program ==
    /\ pc = "up_program"
    /\ IF artifact = None
       THEN Fail("NoArtifact") /\ UNCHANGED <<callVars, sent, connVars>>
       ELSE /\ \E o \in UploadOptions(package),
                  after \in (IF cmd = "Run" THEN {"Run"} ELSE Afters) :
                 /\ uploadOpts' = Some(o)
                 /\ uploadArgs' = Some(UploadArguments(o, after))
            /\ sent' = sent \cup {"upload_program"}
            /\ pc' = "uploading"
            /\ Begin("upload_program", inFlight)
            /\ UNCHANGED uploadResult
            /\ UNCHANGED result
    /\ UNCHANGED <<cmd, devVars, newVars, openVars, mainVars, radioUp, upVars, swVars,
                   termVars, selectCount>>

\* upload_program returns and upload's locals are dropped (lines 470-472); then `?`
\* in app (lines 179 and 184)
upload_return ==
    /\ pc = "uploading"
    /\ \E res \in {"Ok", "SerialError"} :
         LET flight == inFlight \ {"upload_program"}
         IN  /\ uploadResult' = res
             /\ IF ~is_ok(res)
                THEN /\ Fail(res)
                     /\ inFlight' = flight
                     /\ UNCHANGED <<termStarted, overlap>>
                ELSE IF cmd = "Run"
                THEN /\ pc' = "term_select"
                     /\ termStarted' = TRUE
                     /\ Begin("read_user", flight)
                     /\ UNCHANGED result
                ELSE /\ End("Ok")
                     /\ inFlight' = flight
                     /\ UNCHANGED <<termStarted, overlap>>
    /\ uploadOpts' = None
    /\ uploadArgs' = None
    /\ package' = FALSE
    /\ argSlot' = None
    /\ metaSlot' = None
    /\ promptSlot' = None
    /\ slot' = None
    /\ artifact' = None
    /\ UNCHANGED <<cmd, devVars, newVars, openVars, mainVars, radioUp, swVars, reqVars,
                   lastRead, shutdownLog>>

----------------------------------------------------------------------------
(* terminal, and the interrupt branch of Run *)

\* line 488: print!("{}", from_utf8(..).unwrap())
PrintOutput(bytes) == IF from_utf8_ok(bytes) THEN "printed" ELSE "panic"

\* lines 486-490: the read_user branch of the loop's select
terminal_read_user ==
    /\ pc = "term_select"
    /\ \E ok \in BOOLEAN, bytes \in Reads :
         IF ~ok
         THEN pc' = "term_sleep" /\ UNCHANGED <<result, lastRead>>
         ELSE /\ lastRead' = Some(bytes)
              /\ IF PrintOutput(bytes) = "panic"
                 THEN End("panic")
                 ELSE pc' = "term_sleep" /\ UNCHANGED result
    /\ sent' = sent \cup {"read_user"}
    /\ UNCHANGED <<cmd, devVars, newVars, openVars, mainVars, radioUp, upVars, callVars,
                   swVars, selectCount, shutdownLog, termStarted>>
    /\ inFlight' = inFlight \ {"read_user"}
    /\ UNCHANGED overlap

\* lines 491-495: the stdin branch; write_user(..).await.unwrap()
terminal_stdin ==
    /\ pc = "term_select"
    /\ \E readOk \in BOOLEAN, writeOk \in BOOLEAN :
         IF ~readOk
         THEN pc' = "term_sleep" /\ UNCHANGED <<result, sent, overlap>>
         ELSE /\ sent' = sent \cup {"write_user"}
              /\ overlap' = (overlap \/ SelectDrops(inFlight) # {})
              /\ IF writeOk
                 THEN pc' = "term_sleep" /\ UNCHANGED result
                 ELSE End("panic")
    /\ UNCHANGED <<cmd, devVars, newVars, openVars, mainVars, radioUp, upVars, callVars,
                   swVars, selectCount, termVars>>
    /\ inFlight' = SelectDrops(inFlight)

\* line 498, and the buffers of the next iteration (lines 483-484)
terminal_sleep ==
    /\ pc = "term_sleep"
    /\ pc' = "term_select"
    /\ lastRead' = None
    /\ UNCHANGED <<cmd, result, devVars, newVars, openVars, mainVars, radioUp, upVars,
                   callVars, swVars, reqVars, shutdownLog, termStarted>>
    /\ Begin("read_user", inFlight)

InTerminal == pc \in {"term_select", "term_sleep"}

\* line 188: ctrl_c() completes while terminal() is pending
interrupt ==
    /\ cmd = "Run"
    /\ InTerminal
    /\ pc' = "sd_stop"
    /\ UNCHANGED <<cmd, result, devVars, newVars, openVars, mainVars, radioUp, upVars,
                   callVars, swVars, reqVars, termVars>>
    /\ inFlight' = SelectDrops(inFlight)
    /\ UNCHANGED overlap

\* the Terminal command installs no handler: the signal ends the process
sigint ==
    /\ cmd = "Terminal"
    /\ InTerminal
    /\ End("SIGINT")
    /\ UNCHANGED <<cmd, devVars, newVars, openVars, mainVars, connVars, radioUp, upVars,
                   callVars, swVars, reqVars, termVars>>

\* lines 190-198: the stop request, its result discarded
shutdown_stop ==
    /\ pc = "sd_stop"
    /\ \E run \in HandshakeRuns(ShutdownRetries) :
         shutdownLog' = Append(shutdownLog, <<"LoadFileAction:Stop", run[1], run[2]>>)
    /\ sent' = sent \cup {"LoadFileAction"}
    /\ pc' = "sd_pit"
    /\ UNCHANGED <<cmd, result, devVars, newVars, openVars, mainVars, radioUp, upVars,
                   callVars, swVars, selectCount, lastRead, termStarted>>
    /\ UseConnection

\* lines 201-211: the channel-select to Pit, its result discarded, then exit(0)
shutdown_pit ==
    /\ pc = "sd_pit"
    /\ \E run \in HandshakeRuns(ShutdownRetries) :
         shutdownLog' = Append(shutdownLog, <<"SelectRadioChannel:Pit", run[1], run[2]>>)
    /\ sent' = sent \cup {"SelectRadioChannel"}
    /\ selectCount' = selectCount + 1
    /\ End("exit(0)")
    /\ UNCHANGED <<cmd, devVars, newVars, openVars, mainVars, radioUp, upVars, callVars,
                   swVars, lastRead, termStarted>>
    /\ UseConnection

----------------------------------------------------------------------------
(* new, called for the New and Init commands *)

\* lines 47-57: the target directory and the test that it is empty.  read_dir fails
\* for an absent directory and for one that cannot be listed.
new_check ==
    /\ pc = "new"
    /\ \E d \in Directories, listed \in BOOLEAN, made \in BOOLEAN :
         /\ newName' = IF cmd = "New" THEN Some("robot") ELSE None
         /\ dirBefore' = d
         /\ dir' = d
         /\ IF cmd = "New" /\ ~made
            THEN End("panic")
            ELSE IF DirFull(d, listed)
            THEN Fail("ProjectDirFull")
            ELSE pc' = "new_unpack" /\ UNCHANGED result
    /\ UNCHANGED <<cmd, unpacked, devVars, openVars, mainVars, connVars, radioUp, upVars,
                   callVars, swVars, reqVars, termVars>>

\* lines 25-44 and 73: one entry of the archive is unpacked, or unpacking fails
new_unpack ==
    /\ pc = "new_unpack"
    /\ \E ok \in BOOLEAN :
         IF ~ok
         THEN Fail("IoError") /\ UNCHANGED <<dir, unpacked>>
         ELSE /\ dir' = WriteFile(dir, TemplateFiles[unpacked + 1], "vexide-template")
              /\ unpacked' = unpacked + 1
              /\ pc' = IF unpacked + 1 = Len(TemplateFiles) THEN "new_rename"
                       ELSE "new_unpack"
              /\ UNCHANGED result
    /\ UNCHANGED <<cmd, newName, dirBefore, devVars, openVars, mainVars, connVars, radioUp,
                   upVars, callVars, swVars, reqVars, termVars>>

\* lines 76-84: the manifest is read, the project name put in, and written back
new_rename ==
    /\ pc = "new_rename"
    /\ \E readOk \in BOOLEAN, writeOk \in BOOLEAN :
         IF readOk /\ writeOk
         THEN /\ dir' = WriteFile(dir, "Cargo.toml", UnwrapOr(newName, "dir.file_name"))
              /\ End("Ok")
         ELSE Fail("IoError") /\ UNCHANGED dir
    /\ UNCHANGED <<cmd, newName, dirBefore, unpacked, devVars, openVars, mainVars, connVars,
                   radioUp, upVars, callVars, swVars, reqVars, termVars>>

----------------------------------------------------------------------------
(* Specification *)

Next ==
    \/ Dispatch
    \/ open_connection
    \/ open_return
    \/ main_error
    \/ upload_resolve
    \/ switch_query
    \/ switch_select
    \/ switch_settle
    \/ switch_poll
    \/ switch_sleep
    \/ switch_return
    \/ upload_program
    \/ upload_return
    \/ terminal_read_user
    \/ terminal_stdin
    \/ terminal_sleep
    \/ interrupt
    \/ sigint
    \/ shutdown_stop
    \/ shutdown_pit
    \/ new_check
    \/ new_unpack
    \/ new_rename

Spec == Init /\ [][Next]_vars

\* the runtime keeps driving the main task: a ready handshake, sleep or timer is taken.
\* Signals and the choice among the branches of a select are not under any fairness.
TaskStep ==
    \/ switch_query \/ switch_select \/ switch_settle \/ switch_poll \/ switch_sleep
    \/ switch_return \/ shutdown_stop \/ shutdown_pit

FairSpec == Spec /\ WF_vars(TaskStep)

----------------------------------------------------------------------------
(* Claims *)

InSlots(s) == s \in 1..8
SlotResolved == slot # None
Ended == pc \in {"main_err", "done"}
NoRequestYet == sent = {} /\ selectCount = 0 /\ uploadArgs = None
NeverNegotiated == channel = "none" /\ swResult = "none"

\* C1: a resolved slot outside [1,8], from whichever source, makes upload fail with
\* SlotOutOfRange before switch_radio_channel or upload_program is invoked.
C1_OutOfRangeRejected ==
    (SlotResolved /\ ~InSlots(Unwrap(slot))) =>
        /\ Ended
        /\ result = "SlotOutOfRange"
        /\ NeverNegotiated
        /\ NoRequestYet

C1_Witness ==
    /\ argSlot = None
    /\ metaSlot = Some(255)
    /\ slot = Some(255)
    /\ result = "SlotOutOfRange"

\* C2: every slot from 1 to 8, the ends included, passes the range test of upload: the
\* result is never SlotOutOfRange.
C2_InRangeAccepted ==
    (SlotResolved /\ InSlots(Unwrap(slot))) => result # "SlotOutOfRange"

\* v is the value the layers give: the explicit one, else the declared one, else a fallback
Layered(v, explicit, declared, fallback) ==
    /\ explicit # None => v = Unwrap(explicit)
    /\ (explicit = None /\ declared # None) => v = Unwrap(declared)
    /\ (explicit = None /\ declared = None) => v \in fallback

\* C3: every argument of upload_program is resolved from its own sources alone, with
\* the precedence explicit value, then metadata or package value, then prompt or default;
\* an explicit "uncompressed" is passed inverted.
C3_LayeredPrecedence ==
    uploadArgs # None =>
        LET a == Unwrap(uploadArgs)
            o == Unwrap(uploadOpts)
        IN  /\ Layered(a.slot, argSlot, metaSlot, promptSlot)
            /\ Layered(a.name, o.name, o.pkgName, {"cargo-v5"})
            /\ Layered(a.description, o.description, o.pkgDescription,
                       {"Uploaded with cargo-v5."})
            /\ Layered(a.icon, o.icon, o.metaIcon, {"default"})
            /\ Layered(a.compress, {~u : u \in o.uncompressed}, o.metaCompress, {TRUE})

C3_Witness ==
    /\ uploadArgs # None
    /\ argSlot = Some(2)
    /\ metaSlot = Some(5)
    /\ Unwrap(uploadArgs).slot = 2
    /\ Unwrap(uploadOpts).name = None
    /\ Unwrap(uploadArgs).name = "pkg-name"
    /\ Unwrap(uploadOpts).uncompressed = Some(TRUE)
    /\ Unwrap(uploadOpts).metaCompress = Some(TRUE)
    /\ Unwrap(uploadArgs).compress = FALSE

WiredLink == ~devController \/ devTethered
Returned == pc = "sw_ret"

\* C4 as stated: on a connection that is not wireless switch_radio_channel returns
\* success and has issued no device request at all.
C4_NoRequestAtAll ==
    (Returned /\ WiredLink) => (swResult = "Ok" /\ sent = {})

\* C4, amended: on a connection that is not wireless switch_radio_channel issues the
\* status query and nothing else (no channel-select, no settle delay, no poll); it
\* returns success when the query answered and the query's error when it failed.
C4_WiredOnlyQueries ==
    (Returned /\ WiredLink) =>
        /\ sent \subseteq {"GetSystemVersion", "GetSystemFlags"}
        /\ "GetSystemVersion" \in sent
        /\ selectCount = 0
        /\ ~selectAcked /\ ~settled /\ polls = 0 /\ successLogs = 0
        /\ swResult = IF statusReply # None THEN "Ok" ELSE "SerialError"

C4_Witness ==
    /\ Returned
    /\ devController /\ devTethered
    /\ statusReply # None
    /\ swResult = "Ok"
    /\ sent = {"GetSystemVersion", "GetSystemFlags"}

Negotiating == Returned /\ selectAcked
IdealPolls == spaced /\ ~pollErr

\* C5: after an acknowledged channel-select, with polls 250 ms apart that all answer,
\* the call ends in one of two ways: a poll N with N * 250 ms < 5 s reported the link,
\* and the call returns success with the success message logged once; or the polls
\* 0..19 all reported no link, and only then RadioChannelTimeout.
C5_Convergence ==
    (Negotiating /\ IdealPolls) =>
        \/ /\ flipPoll # None
           /\ Unwrap(flipPoll) * 250 < 5000
           /\ swResult = "Ok"
           /\ successLogs = 1
        \/ /\ flipPoll = None
           /\ polls * 250 >= 5000
           /\ swResult = "RadioChannelTimeout"

C5_Witness ==
    /\ Negotiating /\ IdealPolls
    /\ flipPoll = Some(19)
    /\ elapsed = 4750
    /\ swResult = "Ok"
    /\ successLogs = 1

\* after an acknowledged channel-select, a call whose polls never report the link
\* returns RadioChannelTimeout, 5 s after polling began and not before, with no success
\* message; the number of polls is bounded and the loop is never stuck.
C6_TimeoutSafety ==
    /\ (Negotiating /\ flipPoll = None) =>
           /\ swResult = "RadioChannelTimeout"
           /\ elapsed >= 5000
           /\ successLogs = 0
    /\ (selectAcked /\ pc \in {"sw_poll", "sw_sleep"}) =>
           /\ polls * 250 <= 5000
           /\ elapsed < 5000
           /\ ENABLED (switch_poll \/ switch_sleep)

\* C6: under the runtime's progress, an acknowledged negotiation always returns, and
\* while no poll reports the link the only way it returns is the timeout at 5 s.
C6_Timeout ==
    /\ [](C6_TimeoutSafety)
    /\ (selectAcked /\ pc \in {"sw_settle", "sw_poll", "sw_sleep"}) ~> Returned

C6_Witness ==
    /\ Negotiating
    /\ flipPoll = None
    /\ pollErr
    /\ ~spaced
    /\ swResult = "RadioChannelTimeout"
    /\ elapsed = 5000

InterruptWon == pc \in {"sd_stop", "sd_pit"} \/ result = "exit(0)"

\* the log of the interrupt branch at each of its positions
C7_ShutdownSequence ==
    /\ pc = "sd_stop" => shutdownLog = <<>>
    /\ pc = "sd_pit" =>
           /\ Len(shutdownLog) = 1
           /\ shutdownLog[1][1] = "LoadFileAction:Stop"
           /\ shutdownLog[1][2] = 1
    /\ (pc = "done" /\ shutdownLog # <<>>) =>
           /\ result = "exit(0)"
           /\ Len(shutdownLog) = 2
           /\ shutdownLog[1][1] = "LoadFileAction:Stop"
           /\ shutdownLog[2][1] = "SelectRadioChannel:Pit"
           /\ shutdownLog[1][2] = 1 /\ shutdownLog[2][2] = 1
    /\ InterruptWon => (cmd = "Run" /\ (pc = "done" \/ ENABLED (shutdown_stop \/ shutdown_pit)))
    /\ result = "exit(0)" => Len(shutdownLog) = 2

\* C7: once the interrupt has won the race in Run, the stop request is attempted once,
\* then the channel-select to Pit is attempted once, and the process exits with code 0
\* whatever the two outcomes are.
C7_Shutdown ==
    /\ [](C7_ShutdownSequence)
    /\ (pc = "sd_stop") ~> (result = "exit(0)")

C7_Witness ==
    /\ result = "exit(0)"
    /\ shutdownLog = <<<<"LoadFileAction:Stop", 1, "Timeout">>,
                       <<"SelectRadioChannel:Pit", 1, "Nack">>>>

Bit(x, n) == (x \div (2 ^ n)) % 2 = 1

\* C8: a status query that answered evaluates to true exactly when the product flags
\* hold the connected-wireless flag and bit 8 of the system flags is clear; when bit 8
\* is set, the switch_radio_channel call returns success without a channel-select, a
\* settle delay or a poll.
C8_WirelessPredicate ==
    statusReply # None =>
        LET r == Unwrap(statusReply)
        IN  /\ r.wireless <=> (Bit(r.version, 1) /\ ~Bit(r.system_flags, 8))
            /\ Bit(r.system_flags, 8) =>
                   /\ ~r.wireless
                   /\ pc = "sw_ret"
                   /\ swResult = "Ok"
                   /\ selectCount = 0
                   /\ ~settled /\ polls = 0

C8_Witness ==
    /\ statusReply # None
    /\ Unwrap(statusReply).version = 3
    /\ Unwrap(statusReply).system_flags = 511
    /\ ~Unwrap(statusReply).wireless
    /\ swResult = "Ok"

UploadInvoked == "upload_program" \in sent
NegotiationFailed == swResult \notin {"none", "Ok"}

\* C9: upload_program is invoked only after switch_radio_channel(Download) returned
\* success; when the negotiation fails, upload_program is never invoked and the error
\* is what the command returns.
C9_NegotiateBeforeUpload ==
    /\ (UploadInvoked \/ uploadArgs # None \/ pc \in {"up_program", "uploading"}) =>
           (channel = "Download" /\ swResult = "Ok")
    /\ NegotiationFailed =>
           /\ ~UploadInvoked /\ uploadArgs = None
           /\ Returned \/ Ended
           /\ Ended => result = swResult

C9_Witness ==
    /\ cmd = "Upload"
    /\ pc = "done"
    /\ result = "RadioChannelTimeout"
    /\ ~UploadInvoked

\* C10: whatever bytes read_user returned, the terminal loop goes on to its next
\* iteration: bytes that are not valid UTF-8 are dropped.
C10_InvalidUtf8Dropped ==
    lastRead # None => (pc = "term_sleep" /\ result = "none")

TerminalEnded == pc = "done" /\ termStarted

\* C11: whatever read_user, the read of stdin and write_user return, the terminal loop
\* goes on; it ends only by a signal from outside, never by aborting on its own.
C11_LoopNeverAborts ==
    TerminalEnded => result \in {"SIGINT", "exit(0)"}

\* C12: an interrupt of the terminal session, in Run and in Terminal alike, is followed
\* by the stop request and then the channel-select to Pit before the process ends.
C12_ShutdownOnCancel ==
    (pc = "done" /\ result \in {"SIGINT", "exit(0)"}) =>
        /\ Len(shutdownLog) = 2
        /\ shutdownLog[1][1] = "LoadFileAction:Stop"
        /\ shutdownLog[2][1] = "SelectRadioChannel:Pit"

UploadCmd == cmd \in {"Upload", "Run"}
NoSource == argSlot = None /\ metaSlot = None /\ promptSlot = None
PastResolution == pc \in {"sw_query", "sw_select", "sw_settle", "sw_poll", "sw_sleep",
                          "sw_ret", "up_program", "uploading"}
BeforeResolution == {"SerialError", "NoDevice", "BadFieldType", "MissingBinutils", "panic"}

C13_WitnessNoSlot == pc = "done" /\ result = "NoSlot" /\ package /\ artifact # None

\* C14: open_connection returns NoDevice exactly when the enumeration found no device;
\* otherwise it makes one connect call, to the first device found and bounded by 5 s;
\* an error of the enumeration or of that connect is what the command returns, with no
\* other device tried and no request sent.
C14_FirstDeviceOnly ==
    /\ [](pc = "open_ret" =>
            /\ openResult = "NoDevice" <=> devices = Some(<<>>)
            /\ devices = None => (openResult = "SerialError" /\ connectLog = <<>>)
            /\ devices = Some(<<>>) => connectLog = <<>>
            /\ (devices # None /\ devices # Some(<<>>)) =>
                  /\ connectLog = <<<<Unwrap(devices)[1], 5>>>>
                  /\ openResult \in {"Ok", "SerialError"}
            /\ NoRequestYet)
    /\ [][(pc = "open_ret" /\ openResult # "Ok") =>
             (pc' = "main_err" /\ result' = openResult /\ sent' = {})]_vars

C14_Witness ==
    /\ pc = "open_ret" /\ devices # None /\ Len(Unwrap(devices)) = MaxDevices
    /\ openResult = "SerialError" /\ Len(connectLog) = 1

\* C15: every end of the process caused by a failure of the command passes through
\* main's error branch, where the location of the log file is printed or at least the
\* listing of the log files is attempted.
C15_FailurePointsToLog ==
    (pc = "done" /\ result \notin {"Ok", "exit(0)", "SIGINT"}) => logPointer # "none"

\* C16: in the poll phase a status query that returns an error counts as "not yet
\* switched": the call does not return, the next poll follows a 250 ms sleep unless the
\* deadline comes first, and the phase can fail with RadioChannelTimeout only, at 5 s.
C16_PollErrorTolerated ==
    /\ [](lastPoll = "Err" =>
            (pc = "sw_sleep" /\ swResult = "none" /\ successLogs = 0 /\ result = "none"))
    /\ []((pc = "sw_ret" /\ settled) =>
            /\ swResult \in {"Ok", "RadioChannelTimeout"}
            /\ swResult = "RadioChannelTimeout" => elapsed = 5000)
    /\ [][pc = "sw_sleep" =>
            \/ pc' = "sw_poll" /\ elapsed' = elapsed + 250 /\ elapsed' < 5000
            \/ /\ pc' = "sw_ret" /\ swResult' = "RadioChannelTimeout"
               /\ elapsed + 250 >= 5000]_vars

C16_Witness ==
    pc = "sw_ret" /\ pollErr /\ lastPoll = "Ok(true)" /\ swResult = "Ok" /\ polls >= 3

\* C17: on a wireless connection switch_radio_channel asks the status, then sends the
\* channel-select with at most 3 attempts, then sleeps 250 ms, then polls; the success
\* message is logged only after a poll saw the link; a channel-select that fails after
\* its 3 attempts makes the call return that error with no settle delay and no poll.
C17_NegotiationOrder ==
    /\ pc = "sw_select" =>
          /\ statusReply # None /\ Unwrap(statusReply).wireless
          /\ "GetSystemFlags" \in sent /\ "SelectRadioChannel" \notin sent
          /\ ~selectAcked /\ ~settled /\ polls = 0
    /\ pc = "sw_settle" =>
          /\ selectAcked /\ selectAttempts \in 1..3 /\ selectCount = 1
          /\ ~settled /\ polls = 0 /\ successLogs = 0
    /\ pc \in {"sw_poll", "sw_sleep"} => (selectAcked /\ settled /\ successLogs = 0)
    /\ polls > 0 => settled
    /\ settled => selectAcked
    /\ successLogs > 0 =>
          /\ pc = "sw_ret" /\ swResult = "Ok" /\ successLogs = 1
          /\ settled /\ lastPoll = "Ok(true)" /\ flipPoll = Some(polls - 1)
    /\ (pc = "sw_ret" /\ selectCount = 1 /\ ~selectAcked) =>
          /\ swResult = "SerialError" /\ selectAttempts = 3
          /\ ~settled /\ polls = 0 /\ successLogs = 0

C17_Witness ==
    pc = "sw_ret" /\ selectCount = 1 /\ ~selectAcked /\ selectAttempts = 3

C17_WitnessSuccess == successLogs = 1 /\ polls = 2

\* C18: at every moment at most one operation holds the connection, and none is ever
\* started while another holds it; in Run the two shutdown handshakes are issued only
\* when the read_user or write_user the terminal loop had pending has been dropped.
C18_ExclusiveConnection ==
    /\ ~overlap
    /\ Cardinality(inFlight) <= 1
    /\ pc \in {"sd_stop", "sd_pit"} => inFlight = {}
    /\ shutdownLog # <<>> => inFlight = {}

C18_Witness ==
    /\ pc = "sd_pit" /\ Len(shutdownLog) = 1 /\ inFlight = {}
    /\ {"read_user", "write_user"} \subseteq sent

ReturnedError == Ended /\ result \notin {"none", "Ok", "panic", "SIGINT", "exit(0)"}
TerminalTraces ==
    \/ InTerminal \/ InterruptWon \/ shutdownLog # <<>>
    \/ {"read_user", "write_user", "LoadFileAction"} \cap sent # {}

\* C19: in Run, terminal() and the interrupt branch start only after upload returned
\* success; when open_connection or upload fails the terminal never starts, neither the
\* stop request nor the channel-select to Pit is sent, and the error is returned. In
\* Terminal the loop starts only after switch_radio_channel(Download) returned success.
C19_TerminalAfterSuccess ==
    /\ (termStarted /\ cmd = "Run") =>
          (uploadResult = "Ok" /\ UploadInvoked /\ swResult = "Ok")
    /\ (termStarted /\ cmd = "Terminal") =>
          (swResult = "Ok" /\ channel = "Download" /\ ~UploadInvoked)
    /\ termStarted => cmd \in {"Run", "Terminal"}
    /\ TerminalTraces => termStarted
    /\ ReturnedError => ~termStarted
    /\ (uploadResult \notin {"none", "Ok"} \/ NegotiationFailed) =>
          (~termStarted /\ (Ended => result \in {uploadResult, swResult}))

C19_Witness ==
    /\ cmd = "Run" /\ pc = "main_err" /\ uploadResult = "SerialError"
    /\ selectCount = 1 /\ ~termStarted

C19_WitnessStarted == cmd = "Run" /\ pc = "sd_pit" /\ uploadResult = "Ok" /\ selectCount = 1

\* C20: a channel-select is sent only right after a status query that reported a
\* wireless connection; on a wired connection no channel-select is ever sent, the
\* shutdown of Run included.
C20_SelectOnlyWhenWireless ==
    /\ WiredLink => (selectCount = 0 /\ "SelectRadioChannel" \notin sent)
    /\ pc = "sd_pit" => (statusReply # None /\ Unwrap(statusReply).wireless)

ConfigurationErrors == {"NoSlot", "SlotOutOfRange", "NoArtifact"}

\* C21: when upload fails with NoSlot, SlotOutOfRange or NoArtifact, no request was
\* issued on the connection and the radio channel was not switched.
C21_ConfigErrorBeforeRequests ==
    (UploadCmd /\ Ended /\ result \in ConfigurationErrors) =>
        (sent = {} /\ selectCount = 0 /\ NeverNegotiated)

NewCmd == cmd \in {"New", "Init"}
NonEmptyBefore == dirBefore # None /\ Unwrap(dirBefore) # {}

\* C22: new refuses a target directory that exists and has an entry: it returns the
\* project-directory-full error, unpacks nothing and leaves every file as it was; the
\* template is unpacked only into an absent or empty directory.
C22_NonEmptyDirRefused ==
    /\ (NewCmd /\ NonEmptyBefore) =>
          (Ended /\ result = "ProjectDirFull" /\ dir = dirBefore /\ unpacked = 0)
    /\ unpacked > 0 => ~NonEmptyBefore

====
